---- MODULE Spec2Model ----
(***************************************************************************)
(* A model of the SEO analysis pipeline: the report orchestrator           *)
(* (seo_analyzer.analyze_url), the cached content fetcher                  *)
(* (content_analyzer.fetch_content over a cachetools TTLCache), the        *)
(* performance probe (performance_utils.analyze_performance) and the pure  *)
(* stages (keyword extraction, readability scoring, AI-search heuristics). *)
(*                                                                         *)
(* One caller runs analyze_url calls one after the other (the Flask route  *)
(* drives each call to completion on its own event loop, and fetch_content *)
(* holds no await).  The clock may advance between any two steps.          *)
(***************************************************************************)
EXTENDS Integers, Sequences, FiniteSets, TLC

(***************************************************************************)
(* Bounds of the model.  The program's cache holds 100 entries for 3600 s; *)
(* the model keeps the same policy on a cache of MaxSize entries that live *)
(* for TTL clock ticks.                                                    *)
(***************************************************************************)
MaxSize == 2
TTL == 2
MaxTime == 3

\* The URLs the caller asks for: one more than the cache holds.
URLs == {"u1", "u2", "u3"}
None == [none |-> TRUE]

VARIABLES
    now,        \* the monotonic clock read by the cache's timer
    cache,      \* content_cache: entries in the order of TTLCache's __links
    pc,         \* the caller's position in analyze_url / fetch_content
    url,        \* the argument of the call in progress
    content,    \* content_data: the FetchResult of the call, or None
    report,     \* the report dictionary of the call in progress
    netFetch,   \* history: fetch requests issued by the call
    netProbe,   \* history: probe requests issued by the call
    stagesRun,  \* history: analysis stages started by the call
    staleSeen,  \* history: the lookup of the call met an expired entry
    probeFailed, \* history: the probe request of the call failed
    prevReq,    \* history: the request for url before the call's own, and how long ago
    lastReq,    \* history: per URL, the last call that issued a request
    used,       \* history: the URLs of the live entries, least recently served first
    stageIn,    \* the arguments of a pure stage function studied on its own
    stageOut    \* <<its result>>, empty before it is called

pipeVars == <<now, cache, pc, url, content, report, netFetch, netProbe, stagesRun, staleSeen, probeFailed, prevReq, lastReq, used>>

pureVars == <<stageIn, stageOut>>

vars == <<pipeVars, pureVars>>

\* The pure stage function has been called, and what it returned.
Called == Len(stageOut) = 1
Result == stageOut[1]

----------------------------------------------------------------------------
(* TTLCache(maxsize, ttl) as content_analyzer uses it.                     *)

Entry(k, v, e) == [key |-> k, value |-> v, expires |-> e]

Keys(c) == {c[i].key : i \in 1..Len(c)}

Find(c, k) == CHOOSE i \in 1..Len(c) : c[i].key = k

\* Contains with the expiry comparison the wrong way round.
ContainsFlipped(c, k, t) == k \in Keys(c) /\ c[Find(c, k)].expires < t

\* TTLCache.__contains__: the key is linked and its link has not expired.
\* Nothing is reordered.
Contains(c, k, t) == k \in Keys(c) /\ t < c[Find(c, k)].expires

\* TTLCache.expire(time): every link whose expiry is not in the future goes.
Expire(c, t) == SelectSeq(c, LAMBDA e : t < e.expires)

Without(c, k) == SelectSeq(c, LAMBDA e : e.key # k)

\* __getlink: the lookup moves the key to the end of __links, expired or not.
MoveToEnd(c, k) == IF k \in Keys(c) THEN Append(Without(c, k), c[Find(c, k)]) ELSE c

\* TTLCache.__getitem__: "hit" with the value, or KeyError (__missing__) when
\* the key is not linked or its link has expired at the time of the read.
GetItem(c, k, t) ==
    IF Contains(c, k, t)
    THEN [hit |-> TRUE, value |-> c[Find(c, k)].value, cache |-> MoveToEnd(c, k)]
    ELSE [hit |-> FALSE, value |-> None, cache |-> MoveToEnd(c, k)]

\* MakeRoom that removes the last key of __links instead of the first.
MakeRoomNewest(c) ==
    IF Len(c) + 1 > MaxSize /\ Len(c) > 0 THEN SubSeq(c, 1, MaxSize - 1) ELSE c

\* Cache.__setitem__ under TTLCache.popitem: while a new key does not fit, the
\* first key of __links is removed.
RECURSIVE MakeRoom(_)
MakeRoom(c) == IF Len(c) + 1 > MaxSize /\ Len(c) > 0 THEN MakeRoom(Tail(c)) ELSE c

\* The keys that MakeRoom removes.
Evicted(c) == Keys(c) \ Keys(MakeRoom(c))

\* TTLCache.__setitem__: expire, make room for a new key, store the value and
\* link the key last with expiry time + ttl.
SetItem(c, k, v, t) ==
    LET live == Expire(c, t)
        room == IF k \in Keys(live) THEN Without(live, k) ELSE MakeRoom(live)
    IN  Append(room, Entry(k, v, t + TTL))

SetEvicts(c, k, t) ==
    LET live == Expire(c, t)
    IN  IF k \in Keys(live) THEN {} ELSE Evicted(live)

----------------------------------------------------------------------------
(* The report dictionary.                                                  *)

Sections == <<"keyword_analysis", "readability", "performance", "ai_search_optimization">>

SectionKeys == {Sections[i] : i \in 1..Len(Sections)}

Put(r, k, v) == [x \in (DOMAIN r) \cup {k} |-> IF x = k THEN v ELSE r[x]]

FetchFailedMsg == "Failed to fetch content from the URL."
UnexpectedMsg == "Unexpected error"

\* The FetchResult built from the response received at time t.
FetchResult(u, t) == [url |-> u, fetchedAt |-> t]

\* The probe's two result shapes.
ProbeSuccess(status) ==
    [status_code |-> status, response_time_seconds |-> "elapsed", page_size_kb |-> "size"]
ProbeFailure == [status_code |-> -1, error |-> "probe failed"]

NoReq == [at |-> -1, state |-> "none"]
NoPrev == [gap |-> -1, state |-> "none"]

----------------------------------------------------------------------------
PipeInit ==
    /\ now = 0
    /\ cache = <<>>
    /\ pc = "idle"
    /\ url = "u1"
    /\ content = None
    /\ report = [k \in {} |-> 0]
    /\ netFetch = 0
    /\ netProbe = 0
    /\ stagesRun = {}
    /\ staleSeen = FALSE
    /\ probeFailed = FALSE
    /\ prevReq = NoPrev
    /\ lastReq = [u \in URLs |-> NoReq]
    /\ used = <<>>

\* The request history keeps the requests of calls made less than TTL ago.
Recent(log, t) ==
    [u \in URLs |-> IF log[u].at >= 0 /\ t - log[u].at < TTL THEN log[u] ELSE NoReq]

Init ==
    /\ PipeInit
    /\ stageIn = None
    /\ stageOut = <<>>

\* The keys a membership test at time t finds.
Live(c, t) == {k \in Keys(c) : Contains(c, k, t)}

\* The service order restricted to the keys in S.
Serving(order, S) == SelectSeq(order, LAMBDA k : k \in S)

\* The service order once k has been served (written, or read on a hit).
Served(order, k) == Append(SelectSeq(order, LAMBDA x : x # k), k)

\* time.monotonic advances.
Tick ==
    /\ now < MaxTime
    /\ now' = now + 1
    /\ lastReq' = Recent(lastReq, now + 1)
    /\ used' = Serving(used, Live(cache, now + 1))
    /\ UNCHANGED <<pureVars, probeFailed, cache, pc, url, content, report, netFetch, netProbe, stagesRun, staleSeen, prevReq>>

\* analyze_url(u) is called: report = {'url': url}.
Start(u) ==
    /\ pc = "idle"
    /\ pc' = "fetch_lookup"
    /\ url' = u
    /\ report' = [k \in {"url"} |-> u]
    /\ UNCHANGED <<pureVars, used, probeFailed, now, cache, content, netFetch,
                   netProbe, stagesRun, staleSeen, prevReq, lastReq>>

\* The except clause of analyze_url: the error is noted, the report returned.
Abort(r) == Put(r, "error", UnexpectedMsg)

\* fetch_content, "if url in content_cache": on True the read follows; on
\* False the GET request is issued.
FetchLookup ==
    /\ pc = "fetch_lookup"
    /\ staleSeen' = (url \in Keys(cache) /\ ~Contains(cache, url, now))
    /\ IF Contains(cache, url, now)
       THEN /\ pc' = "fetch_read"
            /\ UNCHANGED <<netFetch, prevReq, lastReq>>
       ELSE /\ pc' = "fetch_request"
            /\ netFetch' = netFetch + 1
            /\ prevReq' = IF lastReq[url].at >= 0
                           THEN [gap |-> now - lastReq[url].at, state |-> lastReq[url].state]
                           ELSE NoPrev
            /\ lastReq' = [lastReq EXCEPT ![url] = [at |-> now, state |-> "pending"]]
    /\ UNCHANGED <<pureVars, used, probeFailed, now, cache, url, content, report, netProbe, stagesRun>>

\* fetch_content, "return content_cache[url]": the cached FetchResult, or the
\* KeyError of an entry that expired since the membership test, which leaves
\* fetch_content and is caught by analyze_url's except clause.
FetchRead ==
    /\ pc = "fetch_read"
    /\ LET g == GetItem(cache, url, now)
       IN  /\ cache' = g.cache
           /\ IF g.hit
              THEN /\ content' = g.value
                   /\ pc' = "fetched"
                   /\ used' = Served(used, url)
                   /\ UNCHANGED <<report, staleSeen>>
              ELSE /\ staleSeen' = TRUE
                   /\ report' = Abort(report)
                   /\ pc' = "done"
                   /\ UNCHANGED <<content, used>>
    /\ UNCHANGED <<pureVars, probeFailed, now, url, netFetch, netProbe, stagesRun,
                   prevReq, lastReq>>

\* The history of requests after url's entry is written at time t.
Written(log, c, u, t) ==
    [x \in URLs |->
        IF x = u
        THEN IF log[u].at >= 0 THEN [at |-> log[u].at, state |-> "cached"] ELSE NoReq
        ELSE IF x \in SetEvicts(c, u, t) /\ log[x].state = "cached"
             THEN [at |-> log[x].at, state |-> "evicted"]
             ELSE log[x]]

\* fetch_content: the response arrived with a 2xx status and was parsed; the
\* result is written to the cache and returned.
FetchRespond ==
    /\ pc = "fetch_request"
    /\ LET result == FetchResult(url, now)
       IN  /\ cache' = SetItem(cache, url, result, now)
           /\ content' = result
    /\ lastReq' = Written(lastReq, cache, url, now)
    /\ used' = Serving(Served(used, url), Live(SetItem(cache, url, FetchResult(url, now), now), now))
    /\ pc' = "fetched"
    /\ UNCHANGED <<pureVars, probeFailed, now, url, report, netFetch, netProbe,
                   stagesRun, staleSeen, prevReq>>

\* FetchFail without the early return of analyze_url: the error is noted and
\* the stages run on.
FetchFailContinues ==
    /\ pc = "fetch_request"
    /\ lastReq' = [lastReq EXCEPT ![url] =
                        IF @.at >= 0 THEN [at |-> @.at, state |-> "failed"] ELSE NoReq]
    /\ report' = Put(report, "error", FetchFailedMsg)
    /\ pc' = "fetched"
    /\ UNCHANGED <<pureVars, used, probeFailed, now, cache, url, content, netFetch,
                   netProbe, stagesRun, staleSeen, prevReq>>

\* FetchFail that caches the failure: None is stored under the URL.
FetchFailCachesNone ==
    /\ pc = "fetch_request"
    /\ lastReq' = [lastReq EXCEPT ![url] =
                        IF @.at >= 0 THEN [at |-> @.at, state |-> "failed"] ELSE NoReq]
    /\ cache' = SetItem(cache, url, None, now)
    /\ report' = Put(report, "error", FetchFailedMsg)
    /\ pc' = "done"
    /\ UNCHANGED <<pureVars, used, probeFailed, now, url, content, netFetch,
                   netProbe, stagesRun, staleSeen, prevReq>>

\* fetch_content: the request failed, the status was not 2xx or the parse
\* raised; both except clauses return None, and analyze_url returns the
\* report with the error.
FetchFail ==
    /\ pc = "fetch_request"
    /\ lastReq' = [lastReq EXCEPT ![url] =
                        IF @.at >= 0 THEN [at |-> @.at, state |-> "failed"] ELSE NoReq]
    /\ report' = Put(report, "error", FetchFailedMsg)
    /\ pc' = "done"
    /\ UNCHANGED <<pureVars, used, probeFailed, now, cache, url, content, netFetch,
                   netProbe, stagesRun, staleSeen, prevReq>>

\* analyze_url: content and html are taken from content_data.
Unpack ==
    /\ pc = "fetched"
    /\ pc' = "keywords"
    /\ UNCHANGED <<pureVars, used, probeFailed, now, cache, url, content, report, netFetch, netProbe, stagesRun, staleSeen, prevReq, lastReq>>

StageFrame == UNCHANGED <<pureVars, used, probeFailed, now, cache, url, content, netFetch,
                          netProbe, staleSeen, prevReq, lastReq>>

\* Stage with each stage isolated: the error is noted and the next stage runs.
StageIsolated(at, key, next, raises) ==
    /\ pc = at
    /\ stagesRun' = stagesRun \cup {key}
    /\ report' = IF raises THEN Abort(report) ELSE Put(report, key, content)
    /\ pc' = next
    /\ StageFrame

\* Stage that assigns the section before the exception leaves the stage.
StageStoresThenRaises(at, key, next, raises) ==
    /\ pc = at
    /\ stagesRun' = stagesRun \cup {key}
    /\ report' = IF raises THEN Abort(Put(report, key, content)) ELSE Put(report, key, content)
    /\ pc' = IF raises THEN "done" ELSE next
    /\ StageFrame

\* Stage whose exception is swallowed without noting the error.
StageSwallows(at, key, next, raises) ==
    /\ pc = at
    /\ stagesRun' = stagesRun \cup {key}
    /\ report' = IF raises THEN report ELSE Put(report, key, content)
    /\ pc' = IF raises THEN "done" ELSE next
    /\ StageFrame

\* A stage that computes its section from the content: it returns the
\* section, or raises into the except clause.
Stage(at, key, next, raises) ==
    /\ pc = at
    /\ stagesRun' = stagesRun \cup {key}
    /\ IF raises
       THEN /\ report' = Abort(report)
            /\ pc' = "done"
       ELSE /\ report' = Put(report, key, content)
            /\ pc' = next
    /\ StageFrame

\* report['keyword_analysis'] = extract_keywords(content)
Keywords == \E raises \in BOOLEAN : Stage("keywords", "keyword_analysis", "readability", raises)

\* report['readability'] = compute_readability(content)
Readability == \E raises \in BOOLEAN : Stage("readability", "readability", "performance", raises)

\* ProbeStart that issues no request when the fetch was served from the cache.
ProbeStartReusesCache ==
    /\ pc = "performance"
    /\ stagesRun' = stagesRun \cup {"performance"}
    /\ \E raises \in BOOLEAN :
        IF raises
        THEN /\ report' = Abort(report)
             /\ pc' = "done"
             /\ UNCHANGED netProbe
        ELSE /\ netProbe' = IF netFetch = 0 THEN netProbe ELSE netProbe + 1
             /\ pc' = "probe_wait"
             /\ UNCHANGED report
    /\ UNCHANGED <<pureVars, used, probeFailed, now, cache, url, content, netFetch, staleSeen,
                   prevReq, lastReq>>

\* analyze_performance up to session.get: the timer starts and the probe's
\* GET request is issued; the set-up before the try block may raise.
ProbeStart ==
    /\ pc = "performance"
    /\ stagesRun' = stagesRun \cup {"performance"}
    /\ \E raises \in BOOLEAN :
        IF raises
        THEN /\ report' = Abort(report)
             /\ pc' = "done"
             /\ UNCHANGED netProbe
        ELSE /\ netProbe' = netProbe + 1
             /\ pc' = "probe_wait"
             /\ UNCHANGED report
    /\ UNCHANGED <<pureVars, used, probeFailed, now, cache, url, content, netFetch, staleSeen,
                   prevReq, lastReq>>

\* AnalyzePerformance without the except clause: a failed request raises.
AnalyzePerformanceNoCatch(failed, status) ==
    [raised |-> failed,
     result |-> IF failed THEN ProbeFailure ELSE ProbeSuccess(status)]

\* analyze_performance once its request resolved: any status code is a
\* success; a failure of the request (timeout, DNS, TLS, reset) is caught and
\* turned into the error shape, so nothing is raised to the caller.
AnalyzePerformance(failed, status) ==
    [raised |-> FALSE,
     result |-> IF failed THEN ProbeFailure ELSE ProbeSuccess(status)]

\* report['performance'] = await analyze_performance(url)
ProbeResolve ==
    /\ pc = "probe_wait"
    /\ \E failed \in BOOLEAN, status \in {200, 404} :
        LET r == AnalyzePerformance(failed, status)
        IN  /\ probeFailed' = failed
            /\ IF r.raised
               THEN /\ report' = Abort(report)
                    /\ pc' = "done"
               ELSE /\ report' = Put(report, "performance", r.result)
                    /\ pc' = "suggestions"
    /\ UNCHANGED <<pureVars, used, now, cache, url, content, netFetch, netProbe, stagesRun,
                   staleSeen, prevReq, lastReq>>

\* report['ai_search_optimization'] = analyze_ai_search_factors(content, html)
Suggestions == \E raises \in BOOLEAN : Stage("suggestions", "ai_search_optimization", "done", raises)

\* analyze_url returns the report; the call's locals are gone.
Return ==
    /\ pc = "done"
    /\ pc' = "idle"
    /\ report' = [k \in {} |-> 0]
    /\ content' = None
    /\ netFetch' = 0
    /\ netProbe' = 0
    /\ stagesRun' = {}
    /\ staleSeen' = FALSE
    /\ probeFailed' = FALSE
    /\ prevReq' = NoPrev
    /\ url' = "u1"
    /\ UNCHANGED <<pureVars, used, now, cache, lastReq>>

\* The steps of a call in progress.
CallStep ==
    \/ FetchLookup
    \/ FetchRead
    \/ FetchRespond
    \/ FetchFail
    \/ Unpack
    \/ Keywords
    \/ Readability
    \/ ProbeStart
    \/ ProbeResolve
    \/ Suggestions
    \/ Return

Next ==
    \/ Tick
    \/ \E u \in URLs : Start(u)
    \/ CallStep

Spec == Init /\ [][Next]_vars

\* Every step of a call is taken once it can be: the interpreter runs the
\* coroutine on, and each network request resolves (response or timeout).
LiveSpec == Spec /\ WF_vars(CallStep)

\* The orchestrator's state, read off the position of the call.
Phase ==
    CASE pc = "idle" -> "START"
      [] pc \in {"fetch_lookup", "fetch_read", "fetch_request"} -> "FETCHING"
      [] pc = "fetched" -> "FETCHED"
      [] pc \in {"keywords", "readability", "performance", "probe_wait", "suggestions"} -> "ANALYZING"
      [] pc = "done" /\ "error" \in DOMAIN report -> "FAILED"
      [] pc = "done" /\ "error" \notin DOMAIN report -> "COMPLETE"

TypeOK ==
    /\ now \in 0..MaxTime
    /\ Len(cache) <= MaxSize
    /\ url \in URLs

----------------------------------------------------------------------------
(* Claims about the orchestrator, the fetcher's cache and the probe.       *)

Returned == pc = "done"

FetchFailed == Returned /\ content = None

Prefix(n) == {Sections[i] : i \in 1..n}

\* C1: whenever the content fetch of an analyze call fails (the request
\* fails, the status is not 2xx, or an exception leaves the fetcher), the
\* returned report has exactly the keys url and error, no analysis stage has
\* run and no probe request has been issued.
C1_FetchFailureReport ==
    FetchFailed =>
        /\ DOMAIN report = {"url", "error"}
        /\ stagesRun = {}
        /\ netProbe = 0

\* A call whose fetch request was issued and failed has returned.
C1_Witness == FetchFailed /\ netFetch = 1 /\ report["error"] = FetchFailedMsg

\* C2 as stated: a call that issues a fetch request is not preceded, less
\* than TTL earlier, by another call for the same URL that issued one.
C2_OneRequestPerWindow ==
    netFetch >= 1 => (prevReq.state = "none" \/ prevReq.gap >= TTL)

\* C2, amended: two calls for the same URL made less than TTL apart both
\* issue a fetch request only if the earlier request failed (nothing was
\* cached) or its entry was evicted for capacity in between; and a call that
\* hits an unexpired entry returns the cached FetchResult without a request.
C2_OneRequestPerCachedWindow ==
    /\ (netFetch >= 1 /\ prevReq.state \notin {"none", "failed", "evicted"})
            => prevReq.gap >= TTL
    /\ pc = "fetch_read" => netFetch = 0
    /\ (pc = "fetched" /\ netFetch = 0) =>
            /\ url \in Keys(cache)
            /\ content = cache[Find(cache, url)].value
            /\ content.url = url

\* A call served from the entry that a call less than TTL earlier wrote.
C2_Witness ==
    /\ pc = "fetched"
    /\ netFetch = 0
    /\ lastReq[url].state = "cached"
    /\ now - lastReq[url].at < TTL

\* C3: a fetch whose lookup meets a stale entry, at the membership test or at
\* the read that follows it, is treated as a miss: it has issued a request
\* when it ends, and on success the entry holds the new FetchResult; no call
\* is served a stale entry.
C3_StaleIsMiss ==
    (staleSeen /\ pc \notin {"idle", "fetch_lookup", "fetch_read", "fetch_request"}) =>
        /\ netFetch = 1
        /\ content # None =>
              /\ url \in Keys(cache)
              /\ cache[Find(cache, url)].value = content

C6_ProbeFailureRecovered ==
    probeFailed =>
        /\ "performance" \in DOMAIN report
        /\ DOMAIN report["performance"] = {"status_code", "error"}
        /\ report["performance"].status_code = -1
        /\ pc \in {"suggestions", "done"}
        /\ Returned => "ai_search_optimization" \in stagesRun
        /\ "error" \in DOMAIN report =>
              /\ "ai_search_optimization" \in stagesRun
              /\ "ai_search_optimization" \notin DOMAIN report

\* A call whose probe failed returned a complete report without error.
C6_Witness ==
    /\ probeFailed
    /\ Returned
    /\ DOMAIN report = {"url"} \cup SectionKeys

PhaseEdges ==
    {<<"START", "FETCHING">>, <<"FETCHING", "FAILED">>, <<"FETCHING", "FETCHED">>,
     <<"FETCHED", "ANALYZING">>, <<"ANALYZING", "FAILED">>, <<"ANALYZING", "COMPLETE">>,
     <<"FAILED", "START">>, <<"COMPLETE", "START">>}

Phase1 == Phase'

\* C7: a call moves START -> FETCHING -> {FAILED | FETCHED} -> ANALYZING ->
\* {FAILED | COMPLETE} (and back to START for the next call); no stage runs
\* before the fetch succeeded; a returned report contains url, and in
\* COMPLETE all four sections and no error; and a call in progress
\* eventually returns, its requests resolving.
C7_StateMachine ==
    /\ [][Phase1 = Phase \/ <<Phase, Phase1>> \in PhaseEdges]_vars
    /\ [](stagesRun # {} => content # None)
    /\ [](Returned => /\ "url" \in DOMAIN report
                      /\ Phase \in {"FAILED", "COMPLETE"}
                      /\ Phase = "COMPLETE" => DOMAIN report = {"url"} \cup SectionKeys)
    /\ (Phase \in {"FETCHING", "FETCHED", "ANALYZING"}) ~> Returned

\* A call returned in COMPLETE.
C7_Witness == Returned /\ Phase = "COMPLETE" /\ netFetch = 1 /\ netProbe = 1

\* The write of a fetched result: fetch_content stores it and returns.
CacheWrite == pc = "fetch_request" /\ pc' = "fetched"

\* When the entry of key k in cache c was created.
CreatedAt(c, k) == c[Find(c, k)].expires - TTL

\* The position of key k in the service order.
Rank(order, k) == CHOOSE i \in 1..Len(order) : order[i] = k

\* The unexpired keys a write removes.
Victims == Live(cache, now) \ Keys(cache')

\* C11 as stated: the cache never holds more than its capacity, and the
\* entry a write evicts was created no later than any entry that stays,
\* whatever was read in between.
C11_OldestFirstEviction ==
    /\ [](Len(cache) <= MaxSize)
    /\ [][CacheWrite =>
            \A k \in Victims : \A j \in Keys(cache') \ {url} :
                CreatedAt(cache, k) <= CreatedAt(cache, j)]_vars

\* C11, amended: the cache never holds more than its capacity; a write that
\* finds fewer unexpired entries than the capacity evicts none of them, and a
\* write that finds the cache full of unexpired entries evicts exactly one,
\* the least recently served: the one whose last write or cache-hit read is
\* the earliest, which is the oldest only if no entry was read in between.
C11_LeastRecentlyServedEviction ==
    /\ [](Len(cache) <= MaxSize)
    /\ [][CacheWrite =>
            /\ Keys(cache') = (Live(cache, now) \ Victims) \cup {url}
            /\ IF Cardinality(Live(cache, now) \cup {url}) <= MaxSize
               THEN Victims = {}
               ELSE \E k \in Victims :
                        /\ Victims = {k}
                        /\ \A j \in Live(cache, now) : Rank(used, k) <= Rank(used, j)]_vars

\* A write found the cache full and evicted an entry created after one that
\* stayed, because the older entry had been read since.
C11_Witness ==
    /\ pc = "fetched"
    /\ netFetch = 1
    /\ Len(cache) = MaxSize
    /\ \E k \in URLs \ Keys(cache) : \E j \in Keys(cache) \ {url} :
            /\ lastReq[k].state = "evicted"
            /\ lastReq[j].state = "cached"
            /\ lastReq[j].at < lastReq[k].at

Entries(c) == {c[i] : i \in 1..Len(c)}

\* A step of fetch_content that does not return a FetchResult.
FetchStepWithoutResult ==
    pc \in {"fetch_lookup", "fetch_read", "fetch_request"} /\ pc' # "fetched"

\* C13: a fetch that fails (the request fails, the status is not 2xx, the
\* parse raises, or the read of the cache raises) leaves the cache's entries
\* as they were: none is added, removed or replaced; its URL has no live
\* entry when the call returns, and no later call is served from the cache
\* while the last request for its URL is a failed one: it issues a request.
C13_FailedFetchLeavesCache ==
    /\ [][FetchStepWithoutResult => Entries(cache') = Entries(cache)]_vars
    /\ [](FetchFailed => url \notin Live(cache, now))
    /\ [](pc = "fetch_read" => lastReq[url].state # "failed")

\* The fetch of a URL failed while the cache held another URL's entry, and
\* the fetch before it of the same URL, less than TTL earlier, had failed
\* too: both issued a request.
C13_Witness ==
    /\ FetchFailed
    /\ netFetch = 1
    /\ prevReq.state = "failed"
    /\ Live(cache, now) # {}

----------------------------------------------------------------------------
(* analyze_ai_search_factors(content, html).                               *)
(*                                                                         *)
(* The parsed page is what the BeautifulSoup queries of the function read: *)
(* the number of h1 and of h2 elements, which of the other queried         *)
(* elements occur, and the word count of each p element in document order. *)
(* The content is its '.'-separated segments, each by its word count (0: a *)
(* segment of white space only).                                           *)

MaxHeadings == 2
MaxParagraphs == 1
MaxSegments == 2

Marks == {"ul", "ol", "jsonld", "itemscope", "itemtype", "author_meta", "author_link"}
ParagraphWords == {50, 51}
SegmentWords == {0, 25, 26}

SeqsUpTo(S, lo, hi) == UNION {[1..n -> S] : n \in lo..hi}

SuggestInputs ==
    [h1 : 0..MaxHeadings, h2 : 0..MaxHeadings, marks : SUBSET Marks,
     paragraphs : SeqsUpTo(ParagraphWords, 0, MaxParagraphs),
     segments : SeqsUpTo(SegmentWords, 1, MaxSegments)]

RECURSIVE Sum(_)
Sum(q) == IF q = <<>> THEN 0 ELSE Head(q) + Sum(Tail(q))

\* suggestions.setdefault(k, []).append(msg)
SetDefaultAppend(d, k, msg) ==
    Put(d, k, Append(IF k \in DOMAIN d THEN d[k] ELSE <<>>, msg))

\* 1. the two heading checks, in order.
HeadingSuggestions(h1, h2) ==
    (IF h1 # 1 THEN <<"Use exactly one <h1> heading per page">> ELSE <<>>)
    \o (IF h2 < 2 THEN <<"Include multiple <h2> subheadings">> ELSE <<>>)

\* WithHeadings without the test for an empty list.
WithHeadingsAlways(d, hs) == Put(d, "headings", hs)

\* "if heading_suggestions: suggestions['headings'] = heading_suggestions"
WithHeadings(d, hs) == IF hs # <<>> THEN Put(d, "headings", hs) ELSE d

\* 2. no ul and no ol element.
WithLists(d, in) ==
    IF in.marks \cap {"ul", "ol"} = {}
    THEN SetDefaultAppend(d, "lists", "Add bullet or numbered lists")
    ELSE d

\* 3. neither a JSON-LD script nor an itemscope or itemtype attribute.
WithSchema(d, in) ==
    LET has_json_ld == "jsonld" \in in.marks
        has_microdata == "itemscope" \in in.marks \/ "itemtype" \in in.marks
    IN  IF ~(has_json_ld \/ has_microdata)
        THEN SetDefaultAppend(d, "schema", "Implement schema.org structured data")
        ELSE d

\* 4. neither an author meta tag nor a rel=author anchor.
WithTrust(d, in) ==
    IF ~("author_meta" \in in.marks \/ "author_link" \in in.marks)
    THEN SetDefaultAppend(d, "trust", "Add author information")
    ELSE d

\* 5. the first p element has more than 50 words, or there is no p element.
WithSummary(d, in) ==
    IF in.paragraphs # <<>>
    THEN IF Head(in.paragraphs) > 50
         THEN SetDefaultAppend(d, "summary", "Consider adding a concise summary or TL;DR")
         ELSE d
    ELSE SetDefaultAppend(d, "summary", "Add a short introductory paragraph")

\* 6. the average word count of the non-blank segments exceeds 25
\* (sum / len > 25, compared without the division).
WithTone(d, in) ==
    LET sentences == SelectSeq(in.segments, LAMBDA n : n > 0)
    IN  IF sentences # <<>> /\ Sum(sentences) > 25 * Len(sentences)
        THEN SetDefaultAppend(d, "tone", "Use shorter sentences")
        ELSE d

analyze_ai_search_factors(in) ==
    LET s0 == [k \in {} |-> <<>>]
        s1 == WithHeadings(s0, HeadingSuggestions(in.h1, in.h2))
        s2 == WithLists(s1, in)
        s3 == WithSchema(s2, in)
        s4 == WithTrust(s3, in)
        s5 == WithSummary(s4, in)
    IN  WithTone(s5, in)

SuggestInit ==
    /\ PipeInit
    /\ stageIn \in SuggestInputs
    /\ stageOut = <<>>

SuggestCall ==
    /\ ~Called
    /\ stageOut' = <<analyze_ai_search_factors(stageIn)>>
    /\ UNCHANGED <<pipeVars, stageIn>>

SuggestSpec == SuggestInit /\ [][SuggestCall]_vars

\* The categories whose rule triggers on a page, as the rules are stated.
Triggered(in) ==
    {c \in {"headings"} : in.h1 # 1 \/ in.h2 < 2}
    \cup {c \in {"lists"} : "ul" \notin in.marks /\ "ol" \notin in.marks}
    \cup {c \in {"schema"} : {"jsonld", "itemscope", "itemtype"} \cap in.marks = {}}
    \cup {c \in {"trust"} : {"author_meta", "author_link"} \cap in.marks = {}}
    \cup {c \in {"summary"} : Len(in.paragraphs) = 0 \/ in.paragraphs[1] > 50}
    \cup {c \in {"tone"} :
            LET ws == {i \in DOMAIN in.segments : in.segments[i] > 0}
            IN  ws # {} /\ Sum(in.segments) > 25 * Cardinality(ws)}

\* C8: the keys of the SuggestionSet are exactly the categories whose rule
\* triggers, and no key maps to an empty list.
C8_KeysAreTriggeredRules ==
    Called =>
        /\ DOMAIN Result = Triggered(stageIn)
        /\ \A k \in DOMAIN Result : Len(Result[k]) >= 1

\* A page that triggers no rule yields the empty map, one that triggers all
\* of them yields the six keys.
C8_WitnessNone == Called /\ Triggered(stageIn) = {} /\ DOMAIN Result = {}

C8_WitnessAll ==
    /\ Called
    /\ stageIn.h1 = 0
    /\ Len(stageIn.paragraphs) = 1
    /\ DOMAIN Result = {"headings", "lists", "schema", "trust", "summary", "tone"}
    /\ Len(Result["headings"]) = 2

----------------------------------------------------------------------------
(* Text, as the regular expressions of the stages read it: a sequence of   *)
(* characters.                                                             *)

UpperCase ==
    <<"A", "B", "C", "D", "E", "F", "G", "H", "I", "J", "K", "L", "M", "N",
    "O", "P", "Q", "R", "S", "T", "U", "V", "W", "X", "Y", "Z">>

LowerCase ==
    <<"a", "b", "c", "d", "e", "f", "g", "h", "i", "j", "k", "l", "m", "n",
    "o", "p", "q", "r", "s", "t", "u", "v", "w", "x", "y", "z">>

Range(q) == {q[i] : i \in 1..Len(q)}

Letters == Range(UpperCase) \cup Range(LowerCase)

IsLetter(ch) == ch \in Letters

\* str.lower on one character.
LowerChar(ch) ==
    IF ch \in Range(UpperCase)
    THEN LowerCase[CHOOSE i \in 1..26 : UpperCase[i] = ch]
    ELSE ch

Lower(w) == [i \in 1..Len(w) |-> LowerChar(w[i])]

RECURSIVE Concat(_)
Concat(parts) == IF parts = <<>> THEN <<>> ELSE Head(parts) \o Concat(Tail(parts))

\* The end of the longest run of characters of the class that starts at i
\* (i - 1 when text[i] is not of the class).
RECURSIVE RunEnd(_, _, _)
RunEnd(text, i, class) ==
    IF i <= Len(text) /\ text[i] \in class THEN RunEnd(text, i + 1, class) ELSE i - 1

----------------------------------------------------------------------------
(* extract_keywords(text, top_n).                                          *)

MaxPieces == 5
MaxTopN == 3

STOP_WORDS ==
    {<<"a">>, <<"a", "n">>, <<"a", "n", "d">>, <<"a", "r", "e">>,
     <<"a", "s">>, <<"a", "t">>, <<"b", "e">>, <<"b", "u", "t">>,
     <<"b", "y">>, <<"f", "o", "r">>, <<"f", "r", "o", "m">>, <<"i", "f">>,
     <<"i", "n">>, <<"i", "n", "t", "o">>, <<"i", "s">>, <<"i", "t">>,
     <<"n", "o">>, <<"n", "o", "t">>, <<"o", "f">>, <<"o", "n">>,
     <<"o", "r">>, <<"s", "u", "c", "h">>, <<"t", "h", "a", "t">>,
     <<"t", "h", "e">>, <<"t", "h", "e", "i", "r">>, <<"t", "h", "e", "n">>,
     <<"t", "h", "e", "r", "e">>, <<"t", "h", "e", "s", "e">>,
     <<"t", "h", "e", "y">>, <<"t", "h", "i", "s">>, <<"t", "o">>,
     <<"w", "a", "s">>, <<"w", "i", "l", "l">>, <<"w", "i", "t", "h">>,
     <<"w", "e">>, <<"y", "o", "u">>, <<"y", "o", "u", "r">>}

\* The second and later characters of WORD_RE: [A-Za-z'-]
WordChars == Letters \cup {"'", "-"}

IsWordChar(ch) == ch \in WordChars

\* WORD_RE.finditer(text) from position i: a letter followed by at least one
\* word character, taken as far as the word characters go.
RECURSIVE FindWords(_, _)
FindWords(text, i) ==
    IF i > Len(text) THEN <<>>
    ELSE IF IsLetter(text[i]) /\ i + 1 <= Len(text) /\ IsWordChar(text[i + 1])
         THEN LET j == RunEnd(text, i + 1, WordChars)
              IN  <<SubSeq(text, i, j)>> \o FindWords(text, j + 1)
         ELSE FindWords(text, i + 1)

\* words: the matches, lower-cased.
Words(text) == LET ms == FindWords(text, 1) IN [i \in 1..Len(ms) |-> Lower(ms[i])]

\* filtered: not a stop word, and longer than 2.
FilterWords(words) == SelectSeq(words, LAMBDA w : w \notin STOP_WORDS /\ Len(w) > 2)

Occurrences(q, w) == Cardinality({i \in 1..Len(q) : q[i] = w})

\* Counter(filtered): the distinct words in the order of their first
\* occurrence, each with its count.
RECURSIVE Counter(_, _)
Counter(q, i) ==
    IF i > Len(q) THEN <<>>
    ELSE IF \E j \in 1..(i - 1) : q[j] = q[i]
         THEN Counter(q, i + 1)
         ELSE <<[keyword |-> q[i], count |-> Occurrences(q, q[i])]>> \o Counter(q, i + 1)

\* Insertion after every item whose count is not smaller: a stable
\* descending sort.
RECURSIVE InsertDesc(_, _)
InsertDesc(sorted, item) ==
    IF sorted = <<>> THEN <<item>>
    ELSE IF Head(sorted).count >= item.count
         THEN <<Head(sorted)>> \o InsertDesc(Tail(sorted), item)
         ELSE <<item>> \o sorted

RECURSIVE SortDesc(_, _)
SortDesc(items, i) ==
    IF i = 0 THEN <<>> ELSE InsertDesc(SortDesc(items, i - 1), items[i])

\* MostCommon with ties in the order of last occurrence.
MostCommonUnstable(items, n) ==
    LET rev == [i \in 1..Len(items) |-> items[Len(items) + 1 - i]]
        all == SortDesc(rev, Len(rev))
    IN  SubSeq(all, 1, IF n < Len(all) THEN n ELSE Len(all))

\* Counter.most_common(n) for n >= 0: heapq.nlargest(n, items, key=count),
\* which equals sorted(items, key=count, reverse=True)[:n].
MostCommon(items, n) ==
    LET all == SortDesc(items, Len(items))
    IN  SubSeq(all, 1, IF n < Len(all) THEN n ELSE Len(all))

extract_keywords(text, top_n) == MostCommon(Counter(FilterWords(Words(text)), 1), top_n)

\* The pieces the texts are written from.
Pieces ==
    {<<"T", "h", "e", " ">>, <<"c", "a", "t", " ">>, <<"C", "a", "t">>,
     <<"d", "o", "g", ",">>, <<"o", "'", " ">>}

KeywordInputs ==
    {[text |-> Concat(ps), top_n |-> n] :
        ps \in SeqsUpTo(Pieces, 0, MaxPieces), n \in 0..MaxTopN}

KeywordInit ==
    /\ PipeInit
    /\ stageIn \in KeywordInputs
    /\ stageOut = <<>>

KeywordCall ==
    /\ ~Called
    /\ stageOut' = <<extract_keywords(stageIn.text, stageIn.top_n)>>
    /\ UNCHANGED <<pipeVars, stageIn>>

KeywordSpec == KeywordInit /\ [][KeywordCall]_vars

\* The tokens of a text that may be keywords, and their order of merit: more
\* occurrences first, and among equals the one that occurs first.
Eligible(text) == {w \in Range(Words(text)) : w \notin STOP_WORDS /\ Len(w) > 2}

FirstAt(q, w) == CHOOSE i \in 1..Len(q) : q[i] = w /\ \A j \in 1..(i - 1) : q[j] # w

Ahead(text, a, b) ==
    LET q == Words(text)
    IN  \/ Occurrences(q, a) > Occurrences(q, b)
        \/ Occurrences(q, a) = Occurrences(q, b) /\ FirstAt(q, a) < FirstAt(q, b)

\* C9: extract_keywords returns at most top_n records, each an eligible token
\* with its count (> 0), in the order of merit, and they are the first top_n
\* of that order: every eligible token left out comes after all of them.  No
\* stop word and no token of length <= 2 is a keyword.
C9_TopNByCount ==
    Called =>
        LET text == stageIn.text
            n == stageIn.top_n
            kw(i) == Result[i].keyword
            rest == Eligible(text) \ {kw(i) : i \in 1..Len(Result)}
        IN  /\ Len(Result) <= n
            /\ Len(Result) = IF n < Cardinality(Eligible(text))
                               THEN n ELSE Cardinality(Eligible(text))
            /\ \A i \in 1..Len(Result) :
                  /\ kw(i) \in Eligible(text)
                  /\ kw(i) \notin STOP_WORDS
                  /\ Len(kw(i)) > 2
                  /\ Result[i].count = Occurrences(Words(text), kw(i))
                  /\ Result[i].count > 0
            /\ \A i, j \in 1..Len(Result) :
                  i < j => /\ Result[i].count >= Result[j].count
                           /\ Ahead(text, kw(i), kw(j))
            /\ \A w \in rest : \A i \in 1..Len(Result) : Ahead(text, kw(i), w)

\* A text with a stop word and two keywords that occur twice each, cut to
\* one keyword: the one that occurs first.
C9_Witness ==
    /\ Called
    /\ stageIn.top_n = 1
    /\ Len(Result) = 1
    /\ Result[1].count = 2
    /\ <<"t", "h", "e">> \in Range(Words(stageIn.text))
    /\ Cardinality(Eligible(stageIn.text)) = 2
    /\ \A w \in Eligible(stageIn.text) :
          /\ Occurrences(Words(stageIn.text), w) = 2
          /\ FirstAt(Words(stageIn.text), Result[1].keyword) <= FirstAt(Words(stageIn.text), w)

----------------------------------------------------------------------------
(* compute_readability(text).                                              *)
(*                                                                         *)
(* A score is kept exactly, as the fraction num / den of its value in      *)
(* hundredths; the program computes it in binary floating point, which     *)
(* differs from the exact value by less than 1e-12 on these texts.         *)

MaxRepeat == 11
MaxLoose == 1

Vowels == {"a", "e", "i", "o", "u", "y"}

\* re.findall(r'[A-Za-z]+', text) from position i.
RECURSIVE FindLetterRuns(_, _)
FindLetterRuns(text, i) ==
    IF i > Len(text) THEN <<>>
    ELSE IF IsLetter(text[i])
         THEN LET j == RunEnd(text, i, Letters)
              IN  <<SubSeq(text, i, j)>> \o FindLetterRuns(text, j + 1)
         ELSE FindLetterRuns(text, i + 1)

\* The number of segments of re.split(r'[.!?]', text) from position i that
\* hold a character other than white space; inked: the segment being read
\* holds one already.
RECURSIVE NonBlankSegments(_, _, _)
NonBlankSegments(text, i, inked) ==
    IF i > Len(text) THEN (IF inked THEN 1 ELSE 0)
    ELSE IF text[i] \in {".", "!", "?"}
         THEN (IF inked THEN 1 ELSE 0) + NonBlankSegments(text, i + 1, FALSE)
         ELSE NonBlankSegments(text, i + 1, inked \/ text[i] # " ")

\* The loop of _syllable_count: the number of vowel groups of word[i..].
RECURSIVE VowelGroups(_, _, _)
VowelGroups(word, i, prev_char_was_vowel) ==
    IF i > Len(word) THEN 0
    ELSE LET is_vowel == word[i] \in Vowels
         IN  (IF is_vowel /\ ~prev_char_was_vowel THEN 1 ELSE 0)
             + VowelGroups(word, i + 1, is_vowel)

_syllable_count(w) ==
    LET word == SelectSeq(Lower(w), LAMBDA ch : ch \in Range(LowerCase))
        num_vowels == VowelGroups(word, 1, FALSE)
        silent == Len(word) > 0 /\ word[Len(word)] = "e" /\ num_vowels > 1
        n == IF silent THEN num_vowels - 1 ELSE num_vowels
    IN  IF n > 1 THEN n ELSE 1

RECURSIVE SumSyllables(_)
SumSyllables(words) ==
    IF words = <<>> THEN 0 ELSE _syllable_count(Head(words)) + SumSyllables(Tail(words))

\* 206.835 - 1.015 * (words / sentences) - 84.6 * (syllables / words), in
\* hundredths: the numerator over 10 * sentences * words.
_flesch_reading_ease_manual(text) ==
    LET words == FindLetterRuns(text, 1)
        words_count == IF Len(words) > 0 THEN Len(words) ELSE 1
        nonblank == NonBlankSegments(text, 1, FALSE)
        sentences_count == IF nonblank > 0 THEN nonblank ELSE 1
        syllables_count == SumSyllables(words)
    IN  [num |-> 206835 * sentences_count * words_count
                 - 1015 * words_count * words_count
                 - 84600 * syllables_count * sentences_count,
         den |-> 10 * sentences_count * words_count]

\* score >= t, for a threshold t in whole points.
AtLeast(score, t) == score.num >= 100 * t * score.den

\* The if/elif chain of compute_readability.
Level(score) ==
    IF AtLeast(score, 90) THEN "Very easy (5th grade)"
    ELSE IF AtLeast(score, 80) THEN "Easy (6th grade)"
    ELSE IF AtLeast(score, 70) THEN "Fairly easy"
    ELSE IF AtLeast(score, 60) THEN "Standard (8th-9th grade)"
    ELSE IF AtLeast(score, 50) THEN "Fairly difficult (10th-12th grade)"
    ELSE IF AtLeast(score, 30) THEN "Difficult (college)"
    ELSE "Very confusing"

\* round(score, 2), in hundredths: to the nearest, a tie to the even one.
Round2(score) ==
    LET q == score.num \div score.den
        r == score.num % score.den
    IN  IF 2 * r > score.den \/ (2 * r = score.den /\ q % 2 = 1) THEN q + 1 ELSE q

\* textstat: "absent" (the import failed), "raises", or "returns" a score,
\* which the library rounds to 2 decimals.
compute_readability(text, textstat) ==
    LET score == IF textstat.outcome = "returns"
                 THEN [num |-> textstat.hundredths, den |-> 1]
                 ELSE _flesch_reading_ease_manual(text)
    IN  [score |-> Round2(score), level |-> Level(score)]

RECURSIVE Repeat(_, _)
Repeat(piece, n) == IF n = 0 THEN <<>> ELSE piece \o Repeat(piece, n - 1)

\* The texts: one-word sentences "Go. " and "easy! ", and before the latter
\* the loose words "go " and "made? ".
ReadabilityText(a, c, e, b) ==
    Repeat(<<"G", "o", ".", " ">>, a) \o Repeat(<<"g", "o", " ">>, c)
    \o Repeat(<<"m", "a", "d", "e", "?", " ">>, e)
    \o Repeat(<<"e", "a", "s", "y", "!", " ">>, b)

TextstatOutcomes ==
    {[outcome |-> "absent", hundredths |-> 0], [outcome |-> "raises", hundredths |-> 0]}
    \cup {[outcome |-> "returns", hundredths |-> h] : h \in {9000, 8999, 2999, -1234}}

ReadabilityInputs ==
    {[text |-> ReadabilityText(a, c, e, b), textstat |-> t] :
        a \in 0..MaxRepeat, c \in 0..MaxLoose, e \in 0..MaxLoose,
        b \in 0..MaxRepeat, t \in TextstatOutcomes}

ReadabilityInit ==
    /\ PipeInit
    /\ stageIn \in ReadabilityInputs
    /\ stageOut = <<>>

ReadabilityCall ==
    /\ ~Called
    /\ stageOut' = <<compute_readability(stageIn.text, stageIn.textstat)>>
    /\ UNCHANGED <<pipeVars, stageIn>>

ReadabilitySpec == ReadabilityInit /\ [][ReadabilityCall]_vars

\* The band of a returned score (in hundredths), by the closed thresholds.
Band(hundredths) ==
    CASE hundredths >= 9000 -> "Very easy (5th grade)"
      [] hundredths >= 8000 /\ hundredths < 9000 -> "Easy (6th grade)"
      [] hundredths >= 7000 /\ hundredths < 8000 -> "Fairly easy"
      [] hundredths >= 6000 /\ hundredths < 7000 -> "Standard (8th-9th grade)"
      [] hundredths >= 5000 /\ hundredths < 6000 -> "Fairly difficult (10th-12th grade)"
      [] hundredths >= 3000 /\ hundredths < 5000 -> "Difficult (college)"
      [] hundredths < 3000 -> "Very confusing"

\* C10: in every result of compute_readability the level is the band of the
\* returned score; a result whose score is exactly 90 has level Very easy.
C10_LevelIsBandOfScore ==
    Called => Result.level = Band(Result.score)

====
